---- MODULE Spec2Model ----
(***************************************************************************)
(* Model of src/src/lib.rs: CsvFile, an in-memory table of header strings  *)
(* and rows of cell strings, with its accessors, its mutators, and its     *)
(* read (parse) and write (serialize) against a file.                      *)
(*                                                                         *)
(* A String is a sequence of one-character strings, so that split, join    *)
(* and the line iterator work character by character.  A Vec is a          *)
(* sequence; Rust's 0-based index i is the TLA+ index i + 1.               *)
(***************************************************************************)
EXTENDS Integers, Sequences, FiniteSets, TLC

VARIABLES heads, rows, file, last

vars == <<heads, rows, file, last>>

(***************************************************************************)
(* Bounds of the model.                                                    *)
(***************************************************************************)
\* the table holds at most this many strings (headers plus cells)
MaxStrings == 4
\* the table holds at most this many rows
MaxRows == 2
\* a source text given to read has at most this many characters
MaxText == 4
\* a well-formed table the column mutators start from has at most this many columns
MaxCols == 2
\* a table of any shape written to a file holds at most this many strings
MaxWritten == 2
\* a well-formed table written to a file holds at most this many strings
MaxPlain == 6

(***************************************************************************)
(* Characters and strings.                                                 *)
(***************************************************************************)
CSV_SEP == ","

LF == "\n"

CR == "\r"

\* the characters a source text is made of
Chars == {"a", " ", CSV_SEP, LF, CR}

\* the strings the mutators are called with
NameSet == {<<"a">>, <<"b">>}

\* the strings a well-formed table written to a file may hold
PlainSet == {<<>>, <<"a">>}

\* the strings any other table written to a file may hold
CellSet == {<<>>, <<"a">>, <<CSV_SEP>>, <<LF>>, <<CR>>}

\* the empty String, "".to_string()
EmptyString == <<>>

\* Option<T>
None == [some |-> FALSE, val |-> <<>>]

Some(v) == [some |-> TRUE, val |-> v]

\* every sequence over S of length at most n
RECURSIVE SeqsUpTo(_, _)
SeqsUpTo(S, n) ==
    IF n = 0 THEN {<<>>}
    ELSE LET shorter == SeqsUpTo(S, n - 1)
         IN  shorter \cup {Append(s, x) : s \in {t \in shorter : Len(t) = n - 1}, x \in S}

\* the number of cells in all rows
RECURSIVE CellCount(_)
CellCount(rs) == IF rs = <<>> THEN 0 ELSE Len(Head(rs)) + CellCount(Tail(rs))

\* the number of strings a table holds
Size(hs, rs) == Len(hs) + CellCount(rs)

(***************************************************************************)
(* Vec operations of the standard library, as the code uses them.          *)
(***************************************************************************)
\* Vec::get(i): Some(element) inside the vector, None outside
Vec_get(v, i) == IF i < Len(v) THEN Some(v[i + 1]) ELSE None

\* Vec::insert(i, x): the vector with x at index i; the caller checks i <= len
Vec_insert(v, i, x) == SubSeq(v, 1, i) \o <<x>> \o SubSeq(v, i + 1, Len(v))

\* Vec::remove(i): the vector without its element at index i; i < len
Vec_remove(v, i) == SubSeq(v, 1, i) \o SubSeq(v, i + 2, Len(v))

\* Vec::pop(): the vector without its last element (unchanged when empty)
Vec_pop(v) == IF v = <<>> THEN v ELSE SubSeq(v, 1, Len(v) - 1)

\* v[i] = x
Vec_set(v, i, x) == [v EXCEPT ![i + 1] = x]

(***************************************************************************)
(* The result of a call: how it ended, the table it leaves, what it        *)
(* returns.  A panic leaves the table as it was: Vec::insert, Vec::remove  *)
(* and indexing check their index before they touch the vector.            *)
(***************************************************************************)
Ok(hs, rs, ret) == [outcome |-> "ok", heads |-> hs, rows |-> rs, ret |-> ret]

Panic(hs, rs) == [outcome |-> "panic", heads |-> hs, rows |-> rs, ret |-> None]

(***************************************************************************)
(* Accessors.                                                              *)
(***************************************************************************)
\* a mutant of Iter_position: the last index whose header equals name
Iter_position_last(hs, name) == CHOOSE i \in 0..(Len(hs) - 1) :
    /\ hs[i + 1] = name
    /\ \A j \in (i + 1)..(Len(hs) - 1) : hs[j + 1] # name

\* Iterator::position on a match: the first index whose header equals name
Iter_position(hs, name) == CHOOSE i \in 0..(Len(hs) - 1) :
    /\ hs[i + 1] = name
    /\ \A j \in 0..(i - 1) : hs[j + 1] # name

head_pos(hs, name) ==
    IF \E i \in 1..Len(hs) : hs[i] = name THEN Some(Iter_position(hs, name)) ELSE None

\* the closure of cols: the row's cell at index, or "" when the row is too short
col_of(row, index) ==
    IF Vec_get(row, index).some THEN Vec_get(row, index).val ELSE EmptyString

cols(hs, rs, name) ==
    LET index == head_pos(hs, name)
    IN  IF ~index.some THEN Ok(hs, rs, None)
        ELSE Ok(hs, rs, Some([r \in 1..Len(rs) |-> col_of(rs[r], index.val)]))

(***************************************************************************)
(* Header mutators.                                                        *)
(***************************************************************************)
push_head(hs, rs, name) == Ok(Append(hs, name), rs, None)

set_head(hs, rs, position, name) ==
    IF ~Vec_get(hs, position).some THEN Ok(hs, rs, None)
    ELSE Ok(Vec_set(hs, position, name), rs, None)

insert_head(hs, rs, position, name) ==
    IF position > Len(hs) THEN Panic(hs, rs)
    ELSE Ok(Vec_insert(hs, position, name), rs, None)

delete_head(hs, rs, position) ==
    IF position >= Len(hs) THEN Panic(hs, rs)
    ELSE Ok(Vec_remove(hs, position), rs, Some(hs[position + 1]))

pop_head(hs, rs) ==
    Ok(Vec_pop(hs), rs, IF hs = <<>> THEN None ELSE Some(hs[Len(hs)]))

(***************************************************************************)
(* Column mutators.                                                        *)
(***************************************************************************)
push_col(hs, rs, row, value) ==
    IF ~Vec_get(rs, row).some THEN Ok(hs, rs, None)
    ELSE Ok(hs, Vec_set(rs, row, Append(rs[row + 1], value)), None)

\* a mutant of set_col: the column index is not checked, and indexing panics
set_col_unchecked(hs, rs, row, col, value) ==
    IF ~Vec_get(rs, row).some THEN Ok(hs, rs, None)
    ELSE IF ~Vec_get(rs[row + 1], col).some THEN Panic(hs, rs)
    ELSE Ok(hs, Vec_set(rs, row, Vec_set(rs[row + 1], col, value)), None)

set_col(hs, rs, row, col, value) ==
    IF ~Vec_get(rs, row).some THEN Ok(hs, rs, None)
    ELSE IF ~Vec_get(rs[row + 1], col).some THEN Ok(hs, rs, None)
    ELSE Ok(hs, Vec_set(rs, row, Vec_set(rs[row + 1], col, value)), None)

\* a mutant of insert_col: guarded like push_col, a row index outside is ignored
insert_col_guarded(hs, rs, row, position, value) ==
    IF row >= Len(rs) THEN Ok(hs, rs, None)
    ELSE IF position > Len(rs[row + 1]) THEN Panic(hs, rs)
    ELSE Ok(hs, Vec_set(rs, row, Vec_insert(rs[row + 1], position, value)), None)

insert_col(hs, rs, row, position, value) ==
    IF row >= Len(rs) THEN Panic(hs, rs)
    ELSE IF position > Len(rs[row + 1]) THEN Panic(hs, rs)
    ELSE Ok(hs, Vec_set(rs, row, Vec_insert(rs[row + 1], position, value)), None)

\* a mutant of delete_cell: a row too short loses its last cell
delete_cell_short(row, pos) ==
    IF ~Vec_get(row, pos).some THEN Vec_pop(row) ELSE Vec_remove(row, pos)

\* the body of delete_col's loop: a row too short is skipped
delete_cell(row, pos) ==
    IF ~Vec_get(row, pos).some THEN row ELSE Vec_remove(row, pos)

delete_col(hs, rs, position) ==
    IF delete_head(hs, rs, position).outcome = "panic" THEN Panic(hs, rs)
    ELSE Ok(delete_head(hs, rs, position).heads,
            [r \in 1..Len(rs) |-> delete_cell(rs[r], position)], None)

\* a mutant of pop_col: the rows are left as they are
pop_col_heads_only(hs, rs) == Ok(pop_head(hs, rs).heads, rs, None)

pop_col(hs, rs) ==
    Ok(pop_head(hs, rs).heads, [r \in 1..Len(rs) |-> Vec_pop(rs[r])], None)

(***************************************************************************)
(* Row mutators.                                                           *)
(***************************************************************************)
\* a copy of the slice, string by string
row_mapper(value) == [i \in 1..Len(value) |-> value[i]]

push_row(hs, rs, value) == Ok(hs, Append(rs, row_mapper(value)), None)

set_row(hs, rs, position, value) ==
    IF ~Vec_get(rs, position).some THEN Ok(hs, rs, None)
    ELSE Ok(hs, Vec_set(rs, position, row_mapper(value)), None)

insert_row(hs, rs, position, value) ==
    IF position > Len(rs) THEN Panic(hs, rs)
    ELSE Ok(hs, Vec_insert(rs, position, row_mapper(value)), None)

delete_row(hs, rs, position) ==
    IF ~Vec_get(rs, position).some THEN Ok(hs, rs, None)
    ELSE Ok(hs, Vec_remove(rs, position), Some(rs[position + 1]))

pop_row(hs, rs) ==
    Ok(hs, Vec_pop(rs), IF rs = <<>> THEN None ELSE Some(rs[Len(rs)]))

(***************************************************************************)
(* Text: join, split and the line iterator of the standard library.        *)
(***************************************************************************)
\* the index of the first c in s (0 when s holds none)
RECURSIVE Find(_, _)
Find(s, c) ==
    IF s = <<>> THEN 0
    ELSE IF Head(s) = c THEN 1
    ELSE IF Find(Tail(s), c) = 0 THEN 0 ELSE 1 + Find(Tail(s), c)

\* [String]::join(sep): the strings with sep between each two
RECURSIVE join(_, _)
join(v, sep) ==
    IF v = <<>> THEN EmptyString
    ELSE IF Len(v) = 1 THEN v[1]
    ELSE v[1] \o <<sep>> \o join(Tail(v), sep)

\* a mutant of split: a trailing separator starts no cell
RECURSIVE split_trim(_, _)
split_trim(s, sep) ==
    IF Find(s, sep) = 0 THEN <<s>>
    ELSE IF Find(s, sep) = Len(s) THEN <<SubSeq(s, 1, Len(s) - 1)>>
    ELSE <<SubSeq(s, 1, Find(s, sep) - 1)>>
             \o split_trim(SubSeq(s, Find(s, sep) + 1, Len(s)), sep)

\* str::split(sep): the pieces between the separators; n separators give
\* n + 1 pieces, empty ones included
RECURSIVE split(_, _)
split(s, sep) ==
    IF Find(s, sep) = 0 THEN <<s>>
    ELSE <<SubSeq(s, 1, Find(s, sep) - 1)>>
             \o split(SubSeq(s, Find(s, sep) + 1, Len(s)), sep)

\* what BufRead::lines takes off the end of a line read up to its "\n": the
\* "\n", and a "\r" before it
strip_cr(raw) ==
    IF raw # <<>> /\ raw[Len(raw)] = CR THEN SubSeq(raw, 1, Len(raw) - 1) ELSE raw

\* BufRead::lines(): the text cut after every "\n"; a last line without "\n"
\* is kept as it is
RECURSIVE lines(_)
lines(text) ==
    IF text = <<>> THEN <<>>
    ELSE IF Find(text, LF) = 0 THEN <<text>>
    ELSE <<strip_cr(SubSeq(text, 1, Find(text, LF) - 1))>>
             \o lines(SubSeq(text, Find(text, LF) + 1, Len(text)))

\* a mutant of filter_nonempty: a line of spaces only is dropped too
RECURSIVE filter_blank(_)
filter_blank(ls) ==
    IF ls = <<>> THEN <<>>
    ELSE IF \A i \in 1..Len(Head(ls)) : Head(ls)[i] = " " THEN filter_blank(Tail(ls))
    ELSE <<Head(ls)>> \o filter_blank(Tail(ls))

\* .filter(|line| !line.is_empty())
RECURSIVE filter_nonempty(_)
filter_nonempty(ls) ==
    IF ls = <<>> THEN <<>>
    ELSE IF Head(ls) = EmptyString THEN filter_nonempty(Tail(ls))
    ELSE <<Head(ls)>> \o filter_nonempty(Tail(ls))

(***************************************************************************)
(* Files.  A file exists or not and holds a text.                          *)
(***************************************************************************)
NoFile == [exists |-> FALSE, text |-> <<>>]

FileOf(text) == [exists |-> TRUE, text |-> text]

(***************************************************************************)
(* read.  File::open fails when the file does not exist or cannot be       *)
(* opened (fault "open").  The line iterator yields one Result per line:   *)
(* fault "line" makes the read of line number at fail once (the line is    *)
(* not valid UTF-8), fault "stuck" makes every read fail (the path is a     *)
(* directory, the device is gone).  flatten() drops                        *)
(* every Err item and goes on to the next one: a line that failed once is  *)
(* skipped, and a read that fails for ever is asked again for ever.        *)
(***************************************************************************)
\* the Ok items .lines().flatten() yields
flatten(ls, fault) ==
    IF fault.kind = "line" /\ fault.at < Len(ls) THEN Vec_remove(ls, fault.at) ELSE ls

contents(text, fault) ==
    LET kept == filter_nonempty(flatten(lines(text), fault))
    IN  [i \in 1..Len(kept) |-> split(kept[i], CSV_SEP)]

IoError(hs, rs) == [outcome |-> "io_error", heads |-> hs, rows |-> rs, ret |-> None]

Hang(hs, rs) == [outcome |-> "hang", heads |-> hs, rows |-> rs, ret |-> None]

\* a mutant of read: a source without lines gives an empty table
read_or_empty(hs, rs, f, fault) ==
    IF ~f.exists \/ fault.kind = "open" THEN IoError(hs, rs)
    ELSE IF fault.kind = "stuck" THEN Hang(hs, rs)
    ELSE LET cs == contents(f.text, fault)
         IN  IF cs = <<>> THEN Ok(<<>>, <<>>, None) ELSE Ok(cs[1], Tail(cs), None)

read(hs, rs, f, fault) ==
    IF ~f.exists \/ fault.kind = "open" THEN IoError(hs, rs)
    ELSE IF fault.kind = "stuck" THEN Hang(hs, rs)
    ELSE LET cs == contents(f.text, fault)
         IN  IF cs = <<>> THEN Panic(hs, rs) ELSE Ok(cs[1], Tail(cs), None)

(***************************************************************************)
(* write.  File::create fails with fault "create" and leaves the file as   *)
(* it was.  The texts of the model are far shorter than the BufWriter's    *)
(* buffer, so every buf.write only copies into the buffer and the bytes    *)
(* reach the file in buf.flush(); with fault "flush" the flush fails after *)
(* at characters have reached the file.                                    *)
(***************************************************************************)
\* the text of one line: the strings joined by CSV_SEP, and "\n"
line_of(v) == join(v, CSV_SEP) \o <<LF>>

RECURSIVE row_lines(_)
row_lines(rs) == IF rs = <<>> THEN <<>> ELSE line_of(Head(rs)) \o row_lines(Tail(rs))

\* a mutant of write_text: the header line is written for an empty header list too
write_text_blank(hs, rs) == line_of(hs) \o row_lines(rs)

\* everything write hands to the BufWriter
write_text(hs, rs) == (IF hs # <<>> THEN line_of(hs) ELSE <<>>) \o row_lines(rs)

write(hs, rs, f, fault) ==
    IF fault.kind = "create" THEN [res |-> IoError(hs, rs), file |-> f]
    ELSE IF fault.kind = "flush"
    THEN [res |-> IoError(hs, rs), file |-> FileOf(SubSeq(write_text(hs, rs), 1, fault.at))]
    ELSE [res |-> Ok(hs, rs, None), file |-> FileOf(write_text(hs, rs))]

(***************************************************************************)
(* The state machine.  last records the latest call: its name, arguments,  *)
(* outcome and return value, and the table before it (heads0, rows0).      *)
(* fault is the I/O failure the environment injected into the call, and    *)
(* written says that the file read was produced by a completed write of    *)
(* the table held just before.                                             *)
(***************************************************************************)
\* an I/O failure the environment injects into a call: its kind, and where
Fault(kind, at) == [kind |-> kind, at |-> at]

NoFault == Fault("none", 0)

NoArgs == [row |-> 0, position |-> 0, value |-> EmptyString, values |-> <<>>]

Args(row, pos, value, values) ==
    [row |-> row, position |-> pos, value |-> value, values |-> values]

Record(op, args, outcome, ret, fault, written) ==
    [op |-> op, row |-> args.row, position |-> args.position, value |-> args.value,
     values |-> args.values, outcome |-> outcome, ret |-> ret,
     heads0 |-> heads, rows0 |-> rows, fault |-> fault, written |-> written]

\* no call is recorded: the table was just built, or the caller has taken the
\* result of its latest call
Idle == [op |-> "idle", row |-> 0, position |-> 0, value |-> EmptyString,
         values |-> <<>>, outcome |-> "ok", ret |-> None,
         heads0 |-> <<>>, rows0 |-> <<>>, fault |-> NoFault, written |-> FALSE]

\* a call of a method of the table that touches no file
Call(op, args, res) ==
    /\ last = Idle
    /\ Size(res.heads, res.rows) > Size(heads, rows) => Size(res.heads, res.rows) <= MaxStrings
    /\ Len(res.rows) > Len(rows) => Len(res.rows) <= MaxRows
    /\ heads' = res.heads
    /\ rows' = res.rows
    /\ last' = Record(op, args, res.outcome, res.ret, NoFault, FALSE)
    /\ UNCHANGED file

\* the rows the row mutators are called with
RowInputs == SeqsUpTo(NameSet, 2)

\* an index inside v, at its end, or past it
Positions(v) == 0..(Len(v) + 1)

\* CsvFile::new()
Init ==
    /\ heads = <<>>
    /\ rows = <<>>
    /\ file = NoFile
    /\ last = Idle

Cols == \E name \in NameSet :
    Call("cols", Args(0, 0, name, <<>>), cols(heads, rows, name))

PushHead == \E name \in NameSet :
    Call("push_head", Args(0, 0, name, <<>>), push_head(heads, rows, name))

SetHead == \E pos \in Positions(heads), name \in NameSet :
    Call("set_head", Args(0, pos, name, <<>>), set_head(heads, rows, pos, name))

InsertHead == \E pos \in Positions(heads), name \in NameSet :
    Call("insert_head", Args(0, pos, name, <<>>), insert_head(heads, rows, pos, name))

DeleteHead == \E pos \in Positions(heads) :
    Call("delete_head", Args(0, pos, EmptyString, <<>>), delete_head(heads, rows, pos))

PopHead == Call("pop_head", NoArgs, pop_head(heads, rows))

PushCol == \E row \in Positions(rows), value \in NameSet :
    Call("push_col", Args(row, 0, value, <<>>), push_col(heads, rows, row, value))

SetCol == \E row \in Positions(rows), col \in 0..MaxStrings, value \in NameSet :
    /\ row < Len(rows) => col <= Len(rows[row + 1]) + 1
    /\ row >= Len(rows) => col <= 1
    /\ Call("set_col", Args(row, col, value, <<>>), set_col(heads, rows, row, col, value))

InsertCol == \E row \in Positions(rows), pos \in 0..MaxStrings, value \in NameSet :
    /\ row < Len(rows) => pos <= Len(rows[row + 1]) + 1
    /\ row >= Len(rows) => pos <= 1
    /\ Call("insert_col", Args(row, pos, value, <<>>),
            insert_col(heads, rows, row, pos, value))

DeleteCol == \E pos \in Positions(heads) :
    Call("delete_col", Args(0, pos, EmptyString, <<>>), delete_col(heads, rows, pos))

PopCol == Call("pop_col", NoArgs, pop_col(heads, rows))

PushRow == \E value \in RowInputs :
    Call("push_row", Args(0, 0, EmptyString, value), push_row(heads, rows, value))

SetRow == \E pos \in Positions(rows), value \in RowInputs :
    Call("set_row", Args(0, pos, EmptyString, value), set_row(heads, rows, pos, value))

InsertRow == \E pos \in Positions(rows), value \in RowInputs :
    Call("insert_row", Args(0, pos, EmptyString, value),
         insert_row(heads, rows, pos, value))

DeleteRow == \E pos \in Positions(rows) :
    Call("delete_row", Args(0, pos, EmptyString, <<>>), delete_row(heads, rows, pos))

PopRow == Call("pop_row", NoArgs, pop_row(heads, rows))

\* The caller takes the result of a call that returned normally and goes on
\* with the table.  A call that panicked, never returned or returned an
\* io::Error is the caller's last: the caller passes the error on.
Return ==
    /\ last # Idle
    /\ last.outcome = "ok"
    /\ last' = Idle
    /\ UNCHANGED <<heads, rows, file>>

\* the failures a read of the file can meet
ReadFaults ==
    {NoFault, Fault("open", 0), Fault("stuck", 0)}
        \cup {Fault("line", i) : i \in 0..(Len(lines(file.text)) - 1)}

\* CsvFile::read(path): the caller holds the table read
Read == \E fault \in ReadFaults :
    LET res == read(heads, rows, file, fault)
    IN  /\ last = Idle \/ (last.op = "write" /\ last.outcome = "ok")
        /\ heads' = res.heads
        /\ rows' = res.rows
        /\ last' = Record("read", NoArgs, res.outcome, None, fault, last.op = "write")
        /\ UNCHANGED file

\* the failures a write of the table can meet
WriteFaults ==
    {NoFault, Fault("create", 0)}
        \cup {Fault("flush", i) : i \in 0..(Len(write_text(heads, rows)) - 1)}

\* self.write(path)
Write == \E fault \in WriteFaults :
    LET w == write(heads, rows, file, fault)
    IN  /\ last = Idle
        /\ file' = w.file
        /\ last' = Record("write", NoArgs, w.res.outcome, None, fault, FALSE)
        /\ UNCHANGED <<heads, rows>>

Next ==
    \/ Cols
    \/ PushHead
    \/ SetHead
    \/ InsertHead
    \/ DeleteHead
    \/ PopHead
    \/ PushCol
    \/ SetCol
    \/ InsertCol
    \/ DeleteCol
    \/ PopCol
    \/ PushRow
    \/ SetRow
    \/ InsertRow
    \/ DeleteRow
    \/ PopRow
    \/ Return

Spec == Init /\ [][Next]_vars

(***************************************************************************)
(* The column-wide mutators on well-formed tables: from any table within   *)
(* the bounds whose rows are all as long as the header list.               *)
(***************************************************************************)
WellFormed(hs, rs) == \A r \in 1..Len(rs) : Len(rs[r]) = Len(hs)

\* the rows of exactly n strings of S
RowsOfLen(S, n) == {row \in SeqsUpTo(S, n) : Len(row) = n}

\* how many rows of n cells a table of n headers and at most size strings has
\* at most
RowsWithin(n, size) ==
    IF n * (MaxRows + 1) <= size THEN MaxRows ELSE (size \div n) - 1

\* the tables over S of at most width columns and MaxRows rows that hold at
\* most size strings and whose rows are all as long as the header list
WellFormedTables(S, width, size) ==
    UNION {{<<hs, rs>> : rs \in SeqsUpTo(RowsOfLen(S, Len(hs)), RowsWithin(Len(hs), size))} :
              hs \in SeqsUpTo(S, width)}

InitWF ==
    /\ last = Idle
    /\ file = NoFile
    /\ \E t \in WellFormedTables(NameSet, MaxCols, MaxCols * (MaxRows + 1)) : heads = t[1] /\ rows = t[2]

NextWF ==
    \/ DeleteCol
    \/ PopCol
    \/ Return

SpecWF == InitWF /\ [][NextWF]_vars

(***************************************************************************)
(* Reading and writing: from any table within the bounds and no file, or   *)
(* from any source text within the bounds.  The tables are the small ones  *)
(* over CellSet, of any shape, and the well-formed ones over PlainSet.     *)
(***************************************************************************)
\* the sequences of at most k rows that hold at most n cells of CellSet
RECURSIVE RowSeqs(_, _)
RowSeqs(k, n) ==
    IF k = 0 THEN {<<>>}
    ELSE {<<>>} \cup UNION {{<<r>> \o rest : rest \in RowSeqs(k - 1, n - Len(r))} :
                               r \in SeqsUpTo(CellSet, n)}

\* the tables that hold at most MaxWritten strings of CellSet in at most MaxRows rows
Tables ==
    UNION {{<<hs, rs>> : rs \in RowSeqs(MaxRows, MaxWritten - Len(hs))} :
              hs \in SeqsUpTo(CellSet, MaxWritten)}

Texts == SeqsUpTo(Chars, MaxText)

InitIO ==
    /\ last = Idle
    /\ \/ file = NoFile /\ \E t \in Tables : heads = t[1] /\ rows = t[2]
       \/ file = NoFile /\ \E t \in WellFormedTables(PlainSet, MaxPlain, MaxPlain) :
                               heads = t[1] /\ rows = t[2]
       \/ heads = <<>> /\ rows = <<>> /\ \E t \in Texts : file = FileOf(t)

NextIO ==
    \/ Write
    \/ Read
    \/ Return

SpecIO == InitIO /\ [][NextIO]_vars

(***************************************************************************)
(* Properties of the accessors and mutators, checked under Spec.           *)
(***************************************************************************)
\* the latest call returned normally and left the table as it was
Untouched == last.outcome = "ok" /\ heads = last.heads0 /\ rows = last.rows0

\* the latest call panicked and left the table as it was
Aborted == last.outcome = "panic" /\ heads = last.heads0 /\ rows = last.rows0

\* s without the element at 0-based index i
Without(s, i) == [k \in 1..(Len(s) - 1) |-> IF k <= i THEN s[k] ELSE s[k + 1]]

\* C6: column(name) is "not found" when no header equals name; otherwise, with
\* i the first index whose header equals name, it is one entry per row in row
\* order, row r's cell at i when the row has more than i cells and "" otherwise
\* (so an empty sequence, not "not found", when there are no rows).
C6_Column ==
    last.op = "cols" =>
        LET hs == last.heads0
            rs == last.rows0
            name == last.value
        IN  /\ Untouched
            /\ (\A i \in 1..Len(hs) : hs[i] # name) => ~last.ret.some
            /\ \A i \in 1..Len(hs) :
                   (hs[i] = name /\ \A j \in 1..(i - 1) : hs[j] # name) =>
                       /\ last.ret.some
                       /\ Len(last.ret.val) = Len(rs)
                       /\ \A r \in 1..Len(rs) :
                              last.ret.val[r] = IF Len(rs[r]) >= i THEN rs[r][i] ELSE <<>>

\* C6 witness: a name held by two headers is looked up in a table of two rows,
\* one with a cell in that column and one without.
C6_Witness ==
    /\ last.op = "cols"
    /\ last.ret.some
    /\ Cardinality({i \in 1..Len(last.heads0) : last.heads0[i] = last.value}) = 2
    /\ Len(last.rows0) = 2
    /\ \E r \in 1..2 : last.ret.val[r] # <<>>
    /\ \E r \in 1..2 : Len(last.rows0[r]) = 0

\* C7: delete_column(position) inside the header list removes exactly that
\* header and the cell at position of every row with more than position cells,
\* leaving shorter rows and the number and order of rows as they were; outside
\* the header list it fails with no row modified.
C7_DeleteColumn ==
    last.op = "delete_col" =>
        LET hs == last.heads0
            rs == last.rows0
            p == last.position
        IN  IF p < Len(hs)
            THEN /\ last.outcome = "ok"
                 /\ heads = Without(hs, p)
                 /\ Len(rows) = Len(rs)
                 /\ \A r \in 1..Len(rs) :
                        rows[r] = IF Len(rs[r]) > p THEN Without(rs[r], p) ELSE rs[r]
            ELSE last.outcome = "panic" /\ rows = rs

\* C7 witness: a column is deleted from a table with a row that has a cell
\* there and a cell after it, and a row too short to have one.
C7_Witness ==
    /\ last.op = "delete_col"
    /\ last.outcome = "ok"
    /\ \E r \in 1..Len(last.rows0) : Len(last.rows0[r]) > last.position + 1
    /\ \E r \in 1..Len(last.rows0) : Len(last.rows0[r]) <= last.position

\* C8: set_header with a position out of range, push_cell with a row index
\* out of range, set_cell with a row or column index out of range and set_row
\* with a position out of range return normally and leave headers and rows
\* as they were.
C8_SilentNoOp ==
    /\ (last.op = "set_head" /\ last.position >= Len(last.heads0)) => Untouched
    /\ (last.op = "push_col" /\ last.row >= Len(last.rows0)) => Untouched
    /\ (last.op = "set_col" /\ last.row >= Len(last.rows0)) => Untouched
    /\ (last.op = "set_col" /\ last.row < Len(last.rows0)
            /\ last.position >= Len(last.rows0[last.row + 1])) => Untouched
    /\ (last.op = "set_row" /\ last.position >= Len(last.rows0)) => Untouched

\* C8 witness: set_cell on an existing, non-empty row with a column index past
\* the row's end.
C8_Witness ==
    /\ last.op = "set_col"
    /\ last.row < Len(last.rows0)
    /\ last.rows0[last.row + 1] # <<>>
    /\ last.position >= Len(last.rows0[last.row + 1])
    /\ last.heads0 # <<>>

\* C9: insert_header past the number of headers, insert_row past the number of
\* rows and insert_cell with a row index out of range or a position past the
\* row's length abort with the table as it was; a position equal to the
\* current length is accepted and appends at the end.
C9_HardFailure ==
    /\ last.op = "insert_head" =>
           /\ last.position > Len(last.heads0) => Aborted
           /\ last.position = Len(last.heads0) =>
                  /\ last.outcome = "ok"
                  /\ heads = Append(last.heads0, last.value)
                  /\ rows = last.rows0
    /\ last.op = "insert_row" =>
           /\ last.position > Len(last.rows0) => Aborted
           /\ last.position = Len(last.rows0) =>
                  /\ last.outcome = "ok"
                  /\ rows = Append(last.rows0, last.values)
                  /\ heads = last.heads0
    /\ last.op = "insert_col" =>
           /\ last.row >= Len(last.rows0) => Aborted
           /\ (last.row < Len(last.rows0)
                   /\ last.position > Len(last.rows0[last.row + 1])) => Aborted
           /\ (last.row < Len(last.rows0)
                   /\ last.position = Len(last.rows0[last.row + 1])) =>
                  /\ last.outcome = "ok"
                  /\ heads = last.heads0
                  /\ Len(rows) = Len(last.rows0)
                  /\ \A r \in 1..Len(rows) :
                         rows[r] = IF r = last.row + 1
                                   THEN Append(last.rows0[r], last.value)
                                   ELSE last.rows0[r]

\* C9 witness: insert_cell is called with a row index out of range on a table
\* that has rows.
C9_Witness ==
    /\ last.op = "insert_col"
    /\ last.rows0 # <<>>
    /\ last.row >= Len(last.rows0)
    /\ last.outcome = "panic"

(***************************************************************************)
(* Well-formedness, checked under SpecWF.                                  *)
(***************************************************************************)
\* C10: from a table whose rows are all as long as the header list, after any
\* sequence of successful delete_column and pop_column calls every row is
\* still as long as the header list, and no call changes the number of rows.
C10_WellFormedKept ==
    last.outcome = "ok" =>
        /\ WellFormed(heads, rows)
        /\ last.op \in {"delete_col", "pop_col"} =>
               WellFormed(last.heads0, last.rows0) /\ Len(rows) = Len(last.rows0)

\* C10 witness: a second column-wide call in a row, on a table of two rows
\* that has lost a column already and still has one.
C10_Witness ==
    /\ last.op \in {"delete_col", "pop_col"}
    /\ last.outcome = "ok"
    /\ Len(last.heads0) = 1
    /\ Len(last.rows0) = 2
    /\ heads = <<>>

(***************************************************************************)
(* Properties of read and write, checked under SpecIO.                     *)
(***************************************************************************)
\* the string holds no comma and no line break
Plain(str) == \A i \in 1..Len(str) : str[i] \notin {CSV_SEP, LF, CR}

\* every header and every cell of the table is plain
PlainTable(hs, rs) ==
    /\ \A i \in 1..Len(hs) : Plain(hs[i])
    /\ \A r \in 1..Len(rs) : \A i \in 1..Len(rs[r]) : Plain(rs[r][i])

\* the latest call is a read, met by no I/O failure, of a file that a
\* completed write of the table held before the read (heads0, rows0) produced
ReadBack == last.op = "read" /\ last.written /\ last.fault = NoFault

\* the table read is the table written
SameTable == last.outcome = "ok" /\ heads = last.heads0 /\ rows = last.rows0

\* the strings, joined by commas, make a line that is not empty
MakesLine(v) == v # <<>> /\ v # <<EmptyString>>

\* C1 as claimed: every table whose rows are as long as the header list and
\* whose headers and cells hold no comma and no line break is read back as
\* it was written.
C1_RoundTripAsClaimed ==
    (ReadBack /\ WellFormed(last.heads0, last.rows0) /\ PlainTable(last.heads0, last.rows0))
        => SameTable

\* C1 amended: such a table is read back as it was written when it has a
\* header and neither its header line nor any of its row lines is empty,
\* that is, unless it has no header, or has one column and holds "" in it.
C1_RoundTrip ==
    (/\ ReadBack
     /\ WellFormed(last.heads0, last.rows0)
     /\ PlainTable(last.heads0, last.rows0)
     /\ MakesLine(last.heads0)
     /\ \A r \in 1..Len(last.rows0) : MakesLine(last.rows0[r]))
        => SameTable

\* C1 witness: a table of two columns and two rows, one of them of empty
\* cells only, is written and read back.
C1_Witness ==
    /\ ReadBack
    /\ WellFormed(last.heads0, last.rows0)
    /\ PlainTable(last.heads0, last.rows0)
    /\ Len(last.heads0) = 2
    /\ Len(last.rows0) = 2
    /\ \E r \in 1..2 : last.rows0[r] = <<EmptyString, EmptyString>>
    /\ \E r \in 1..2 : last.rows0[r] = <<<<"a">>, EmptyString>>

\* the lines of the source that are not of length zero, in file order
KeptLines(text) ==
    LET ls == lines(text)
        kept == {i \in 1..Len(ls) : Len(ls[i]) > 0}
        nth(k) == CHOOSE i \in kept : Cardinality({j \in kept : j <= i}) = k
    IN  [k \in 1..Cardinality(kept) |-> ls[nth(k)]]

\* the cells are what the line splits into at every comma: joined by commas
\* they give the line back, and none of them holds a comma
SplitsInto(line, cells) ==
    /\ join(cells, CSV_SEP) = line
    /\ \A i \in 1..Len(cells) : Find(cells[i], CSV_SEP) = 0

\* C2: a read, met by no I/O failure, of a source with at least one line that
\* is not empty drops the lines of length zero (and no other), splits every
\* remaining line at every comma, makes the first the headers and the later
\* ones the rows in file order, each row with the cells of its line.
C2_Read ==
    (last.op = "read" /\ last.fault = NoFault /\ file.exists
        /\ KeptLines(file.text) # <<>>) =>
        LET kept == KeptLines(file.text)
        IN  /\ last.outcome = "ok"
            /\ SplitsInto(kept[1], heads)
            /\ Len(rows) = Len(kept) - 1
            /\ \A r \in 1..Len(rows) : SplitsInto(kept[r + 1], rows[r])

\* C2 witness: a source with an empty line, a line of one space and another
\* line is read.
C2_Witness ==
    /\ last.op = "read"
    /\ last.fault = NoFault
    /\ last.outcome = "ok"
    /\ \E i \in 1..Len(lines(file.text)) : lines(file.text)[i] = <<>>
    /\ \E i \in 1..Len(lines(file.text)) : lines(file.text)[i] = <<" ">>
    /\ Len(rows) = 1

\* C3: an I/O failure while opening or while reading the lines of the source
\* makes read return an I/O error; it is never swallowed.
C3_ReadFailurePropagates ==
    (last.op = "read" /\ (last.fault # NoFault \/ ~file.exists))
        => last.outcome = "io_error"

\* C4: a read of a source with no line that is not empty (an empty file, a
\* file of empty lines only) fails: no table is returned.
C4_EmptySourceFails ==
    (last.op = "read" /\ last.fault = NoFault /\ file.exists
        /\ KeptLines(file.text) = <<>>) =>
        /\ last.outcome = "panic"
        /\ heads = last.heads0
        /\ rows = last.rows0

\* C4 witness: a file of empty lines only is read.
C4_Witness ==
    /\ last.op = "read"
    /\ last.fault = NoFault
    /\ file.exists
    /\ Len(lines(file.text)) >= 2
    /\ KeptLines(file.text) = <<>>

\* the texts one after the other
RECURSIVE Concat(_)
Concat(ts) == IF ts = <<>> THEN <<>> ELSE Head(ts) \o Concat(Tail(ts))

\* C5: a write that succeeds leaves in the file exactly one line of the
\* headers joined by commas if and only if there are headers, then one line
\* per row in row order of the row's cells joined by commas, each line ended
\* by "\n", whatever the rows' lengths.
C5_Write ==
    (last.op = "write" /\ last.outcome = "ok") =>
        LET written == (IF Len(heads) > 0 THEN <<heads>> ELSE <<>>) \o rows
        IN  /\ file.exists
            /\ file.text = Concat([k \in 1..Len(written) |->
                                      join(written[k], CSV_SEP) \o <<LF>>])
            /\ heads = last.heads0
            /\ rows = last.rows0

\* C5 witness: a table with a header and a row of another length is written.
C5_Witness ==
    /\ last.op = "write"
    /\ last.outcome = "ok"
    /\ heads # <<>>
    /\ \E r \in 1..Len(rows) : Len(rows[r]) # Len(heads)

====
